---- MODULE Spec2Model ----
(***************************************************************************)
(* Model of the action-based transactional load engine of                  *)
(* invenio-rdm-migrator: PostgreSQLTx (load/postgresql/transactions/       *)
(* execute.py), LoadAction.prepare (actions/base.py), the draft load       *)
(* actions (streams/actions/load/drafts.py) and the file upload and delete *)
(* actions (streams/actions/load/files.py).                                *)
(*                                                                         *)
(* One behaviour is one call of PostgreSQLTx.run() over a feed of load     *)
(* actions.  The code of prepare() between two yields is one or more steps *)
(* (one per block of the generator), each _execute_op call is one step.    *)
(***************************************************************************)
EXTENDS Integers, Sequences, FiniteSets, TLC

\* Longest input feed (number of load actions handed to run()).
MaxFeed == 2

\* Python's None; also the falsy value of an `x or y` expression.
None == 0

DraftKeys == {"r1", "r2"}      \* draft["json"]["id"] values (recids)
ParentKeys == {"p1", "p2"}     \* parent["json"]["id"] values
BucketIds == {"b1", "b2"}      \* draft_bucket["id"] values
PidTypes == {"recid", "depid"} \* draft_pid["pid_type"] values

VARIABLES
    dry,                \* PostgreSQLTx.dry
    raise_on_db_error,  \* PostgreSQLTx.raise_on_db_error
    feedLen,            \* number of actions the feed holds
    pos,                \* number of actions taken from the feed so far
    pc,                 \* position of the executor
    gpc,                \* position of the suspended prepare() generator
    data,               \* action.data of the action being processed
    loc,                \* local variables of the suspended generator
    op,                 \* the Operation yielded and not yet executed
    PIDS, PARENTS, RECORDS, BUCKETS,   \* the STATE ledgers
    nextId,             \* next value of the key generators
    db,                 \* rows as the session sees them
    savepoint,          \* rows to restore on nested_trans.rollback()
    nested,             \* the nested transaction of the current action
    durable,            \* rows committed to the database
    root,               \* the session's outermost transaction
    stats_tx, stats_ops,\* LoadStats.tx, LoadStats.ops
    yielded,            \* history: operations yielded by the current action
    before,             \* history: ledgers and rows when the action began
    log                 \* history: outcome of every action processed

vars == <<dry, raise_on_db_error, feedLen, pos, pc, gpc, data, loc, op,
          PIDS, PARENTS, RECORDS, BUCKETS, nextId, db, savepoint, nested,
          durable, root, stats_tx, stats_ops, yielded, before, log>>

----------------------------------------------------------------------------
(* Python dictionaries *)

EmptyDict == [x \in {} |-> None]

\* truth value of a dict: empty is falsy
Truthy(d) == DOMAIN d # {}

\* dict.get(f): None when the key is missing
DictGet(d, f) == IF f \in DOMAIN d THEN d[f] ELSE None

\* variant of Or that takes its second operand
OrSecond(a, b) == b

\* `a or b` over ids and indexes
Or(a, b) == IF a # None THEN a ELSE b

\* dict.update / merge of a partial row into a row
Merge(old, new) ==
    [f \in DOMAIN old \cup DOMAIN new |-> IF f \in DOMAIN new THEN new[f] ELSE old[f]]

----------------------------------------------------------------------------
(* The Migration State Store (STATE.PIDS, .PARENTS, .RECORDS, .BUCKETS).   *)
(* Each ledger is a mapping from a natural key to a state record.          *)

\* get(key): the entry, or an empty result when the key is absent
StateGet(ledger, key) == IF key \in DOMAIN ledger THEN ledger[key] ELSE EmptyDict

\* add(key, value) raises when the key is already present
StateAddRaises(ledger, key) == key \in DOMAIN ledger
StateAdd(ledger, key, value) == ledger @@ (key :> value)

\* update(key, partial) raises when the key is absent
StateUpdateRaises(ledger, key) == key \notin DOMAIN ledger
StateUpdate(ledger, key, partial) == [ledger EXCEPT ![key] = Merge(@, partial)]

\* a PARENTS entry always carries its four columns
ParentEntry(value) ==
    [id |-> DictGet(value, "id"),
     next_draft_id |-> DictGet(value, "next_draft_id"),
     latest_index |-> DictGet(value, "latest_index"),
     latest_id |-> DictGet(value, "latest_id")]

----------------------------------------------------------------------------
(* Operations and the target store *)

Operation(type, model, row) == [type |-> type, model |-> model, row |-> row]

NoOp == [type |-> "NONE", model |-> "none", row |-> EmptyDict]

Models == {"PersistentIdentifier", "FilesBucket", "RDMParentMetadata",
           "RDMDraftMetadata", "RDMVersionState", "FilesObjectVersion",
           "FilesInstance", "RDMDraftFile", "RDMDraftMediaFile"}

\* primary key column of a model
PkCol(model) ==
    CASE model = "RDMVersionState" -> "parent_id"
      [] model = "FilesObjectVersion" -> "version_id"
      [] OTHER -> "id"

PkOf(o) == o.row[PkCol(o.model)]

\* the statement is rejected: INSERT of an existing primary key, or a bulk
\* UPDATE by primary key that matches no row
OpRejected(o, rows) ==
    \/ o.type = "INSERT" /\ PkOf(o) \in DOMAIN rows[o.model]
    \/ o.type = "UPDATE" /\ PkOf(o) \notin DOMAIN rows[o.model]

\* rows after the statement
OpApply(o, rows) ==
    CASE o.type = "INSERT" ->
           [rows EXCEPT ![o.model] = @ @@ (PkOf(o) :> o.row)]
      [] o.type = "UPDATE" ->
           [rows EXCEPT ![o.model] = [@ EXCEPT ![PkOf(o)] = Merge(@, o.row)]]
      [] o.type = "DELETE" ->
           [rows EXCEPT ![o.model] = [k \in DOMAIN @ \ {PkOf(o)} |-> @[k]]]
      [] OTHER -> rows

----------------------------------------------------------------------------
(* State before run(): one published record r1 of parent p1 was loaded by  *)
(* an earlier stream; r2 and p2 are unknown.                               *)

InitPIDS == ("r1" :> [id |-> 301, pid_type |-> "recid"])
InitPARENTS == ("p1" :> [id |-> 201, next_draft_id |-> None,
                         latest_index |-> 1, latest_id |-> 101])
InitRECORDS == ("r1" :> [id |-> 101, parent_id |-> 201, index |-> 1,
                         fork_version_id |-> 1])
InitBUCKETS == [k \in {} |-> EmptyDict]

\* PIDS holds the identifiers registered by draft actions; the identifier of
\* the published record may or may not have been registered there
InitPIDSChoices == {InitPIDS, [k \in {} |-> EmptyDict]}

InitDb ==
    [m \in Models |->
       CASE m = "PersistentIdentifier" ->
              (301 :> [id |-> 301, pid_type |-> "recid", pid_value |-> "r1",
                       object_uuid |-> 101])
              @@ (302 :> [id |-> 302, pid_type |-> "recid", pid_value |-> "p1",
                          object_uuid |-> 201])
         [] m = "RDMParentMetadata" -> (201 :> [id |-> 201, json_id |-> "p1"])
         [] m = "RDMVersionState" ->
              (201 :> [parent_id |-> 201, latest_index |-> 1, latest_id |-> 101,
                       next_draft_id |-> None])
         [] OTHER -> [k \in {} |-> EmptyDict]]

NoData == [name |-> "none"]
NoLoc == [taken |-> {}]
NoBefore == [PIDS |-> InitPIDS, PARENTS |-> InitPARENTS,
             BUCKETS |-> InitBUCKETS, db |-> InitDb, ops |-> 0, nextId |-> 1]

Init ==
    /\ dry \in BOOLEAN
    /\ raise_on_db_error \in BOOLEAN
    /\ feedLen \in 1..MaxFeed
    /\ pos = 0
    /\ pc = "idle"
    /\ gpc = "none"
    /\ data = NoData
    /\ loc = NoLoc
    /\ op = NoOp
    /\ PIDS \in InitPIDSChoices
    /\ PARENTS = InitPARENTS
    /\ RECORDS = InitRECORDS
    /\ BUCKETS = InitBUCKETS
    /\ nextId = 1
    /\ db = InitDb
    /\ savepoint = InitDb
    /\ nested = "none"
    /\ durable = InitDb
    /\ root = "none"
    /\ stats_tx = 0
    /\ stats_ops = 0
    /\ yielded = <<>>
    /\ before = [NoBefore EXCEPT !.PIDS = PIDS]
    /\ log = <<>>


----------------------------------------------------------------------------
(* LoadAction._generate_pks *)

\* generate_pk / generate_uuid: an opaque key never handed out before
PkFunc(n) == n

\* DraftCreateAction.pks, as the attribute names in rule order (path "id")
DraftCreatePks == <<"draft_pid", "draft", "parent_pid", "parent">>

\* the rules applied in order to the data `d`, `n` being the next free key:
\* a rule whose attribute is missing or empty is skipped, any other rule
\* writes a newly generated key at its path
RECURSIVE GeneratePks(_, _, _)
GeneratePks(d, rules, n) ==
    IF rules = <<>> THEN [data |-> d, nextId |-> n]
    ELSE LET a == Head(rules) IN
         IF a \in DOMAIN d /\ Truthy(d[a])
         THEN GeneratePks([d EXCEPT ![a] = Merge(@, [id |-> PkFunc(n)])],
                          Tail(rules), n + 1)
         ELSE GeneratePks(d, Tail(rules), n)

\* variant of PksOf with the rules of the draft creation for every action
PksOfEveryAction(name) == DraftCreatePks

\* FileUploadAction.pks
FileUploadPks == <<"file_record">>

\* MediaFileUploadAction.pks
MediaFileUploadPks == <<"file_record">>

\* the pks of the action class: DraftCreateAction and the two upload actions
\* declare their rules, every other action of the model inherits
\* LoadAction.pks = []
PksOf(name) ==
    CASE name = "create-draft" -> DraftCreatePks
      [] name = "file-upload" -> FileUploadPks
      [] name = "media-file-upload" -> MediaFileUploadPks
      [] OTHER -> <<>>

----------------------------------------------------------------------------
(* Payloads of the feed *)

\* RDMDraftCreateData as the transform step hands it over
DraftCreateData(dk, pkey, t, b) ==
    [name |-> "create-draft",
     draft_pid |-> [id |-> None, pid_type |-> t, pid_value |-> dk],
     draft |-> [id |-> None, json_id |-> dk, bucket_id |-> b, parent_id |-> None,
                index |-> 1, fork_version_id |-> None],
     parent_pid |-> [id |-> None, pid_type |-> "recid", pid_value |-> pkey],
     parent |-> [id |-> None, json_id |-> pkey],
     draft_bucket |-> [id |-> b]]

\* RDMDraftEditData as the transform step hands it over: the rows carry no
\* internal ids yet
DraftEditData(dk, pkey) ==
    [name |-> "edit-draft",
     draft |-> [id |-> None, json_id |-> dk],
     parent |-> [id |-> None, json_id |-> pkey]]

----------------------------------------------------------------------------
(* PostgreSQLTx._load and _process_action *)

exec_vars == <<dry, raise_on_db_error, feedLen>>
ledger_vars == <<PIDS, PARENTS, RECORDS, BUCKETS>>
stats_vars == <<stats_tx, stats_ops>>

\* _load up to the loop: in dry mode the outer transaction is begun
LoadBegin ==
    /\ pc = "idle"
    /\ pc' = "loop"
    /\ root' = IF dry THEN "open" ELSE root
    /\ UNCHANGED <<exec_vars, pos, gpc, data, loc, op, ledger_vars, nextId, db,
                   savepoint, nested, durable, stats_vars, yielded, before, log>>

\* variant of PrepareFirst that starts prepare() at reference resolution
PrepareFirstRefs == "refs"

\* base.py 102: the first statement of prepare() is the key generation
PrepareFirst == "pks"

\* the loop takes the next action of the feed; _process_action opens the
\* savepoint (the session begins its outermost transaction on first use) and
\* calls prepare(), which runs nothing until the first operation is requested
ProcessAction(d) ==
    /\ pc = "loop"
    /\ pos < feedLen
    /\ pos' = pos + 1
    /\ root' = "open"
    /\ savepoint' = db
    /\ nested' = "open"
    /\ data' = d
    /\ loc' = NoLoc
    /\ op' = NoOp
    /\ yielded' = <<>>
    /\ before' = [PIDS |-> PIDS, PARENTS |-> PARENTS, BUCKETS |-> BUCKETS,
                  db |-> db, ops |-> stats_ops, nextId |-> nextId]
    /\ pc' = "gen"
    /\ gpc' = PrepareFirst
    /\ UNCHANGED <<exec_vars, ledger_vars, nextId, db, durable, stats_vars, log>>

\* execute.py 121-130: the for statement asks the entries for the next
\* action and the iterator raises (a feed that builds its load actions as
\* they are asked for raises where data_cls(**data) does, base.py 68); the
\* statement is inside the try block, which encloses the whole loop, so the
\* run goes to the except clause: no action is taken, no savepoint opened
FeedRaises ==
    /\ pc = "loop"
    /\ pos < feedLen
    /\ pc' = "propagate"
    /\ UNCHANGED <<exec_vars, pos, gpc, data, loc, op, ledger_vars, nextId, db,
                   savepoint, nested, durable, root, stats_vars, yielded, before,
                   log>>

\* the generator yields `o` to the executor
Yield(o, next) ==
    /\ op' = o
    /\ yielded' = Append(yielded, o)
    /\ pc' = "exec"
    /\ gpc' = next

\* the generator raises
Raise ==
    /\ pc' = "fail"
    /\ UNCHANGED <<op, yielded, gpc>>

\* the generator goes on without yielding
Goto(next) ==
    /\ gpc' = next
    /\ UNCHANGED <<op, yielded, pc>>

gen_frame == <<exec_vars, pos, db, savepoint, nested, durable, root, stats_vars, before, log>>

\* prepare(): self._generate_pks(session)
PrepareGeneratePks ==
    /\ pc = "gen" /\ gpc = "pks"
    /\ LET r == GeneratePks(data, PksOf(data.name), nextId) IN
         /\ data' = r.data
         /\ nextId' = r.nextId
    /\ Goto("refs")
    /\ UNCHANGED <<gen_frame, ledger_vars, loc>>

\* prepare(): self._resolve_references(session); the draft payloads of the
\* model carry no communities and no external pids to resolve
PrepareResolveReferences ==
    /\ pc = "gen" /\ gpc = "refs"
    /\ data.name = "create-draft"
    /\ Goto("pid_rows")
    /\ UNCHANGED <<gen_frame, ledger_vars, nextId, data, loc>>

----------------------------------------------------------------------------
(* DraftEditAction *)

\* variant of ParentResolved that takes any result of the lookup
ParentResolvedAlways(state_parent) == TRUE

\* drafts.py 234-236: the result of PARENTS.get is subscripted, which raises
\* when the parent is not in the ledger
ParentResolved(state_parent) == Truthy(state_parent)

\* variant of ResolvedIds that reads the parent's id from the wrong column
ResolvedIdsSwapped(state_parent) ==
    [draft_id |-> DictGet(state_parent, "next_draft_id"),
     parent_id |-> DictGet(state_parent, "next_draft_id")]

\* drafts.py 235-236: draft id and parent id as PARENTS holds them
ResolvedIds(state_parent) ==
    [draft_id |-> DictGet(state_parent, "next_draft_id"),
     parent_id |-> DictGet(state_parent, "id")]

\* DraftEditAction._resolve_references
EditResolveReferences ==
    /\ pc = "gen" /\ gpc = "refs"
    /\ data.name = "edit-draft"
    /\ LET state_parent == StateGet(PARENTS, data.parent.json_id) IN
         IF ParentResolved(state_parent)
         THEN /\ data' = [data EXCEPT !.draft.id = ResolvedIds(state_parent).draft_id,
                                      !.parent.id = ResolvedIds(state_parent).parent_id]
              /\ Goto("edit_parent")
         ELSE Raise /\ UNCHANGED data
    /\ UNCHANGED <<gen_frame, ledger_vars, nextId, loc>>

\* DraftEditAction._generate_rows, lines 204-209: assert parent["id"], then
\* the parent update row
EditParentUpdate ==
    /\ pc = "gen" /\ gpc = "edit_parent"
    /\ IF data.parent.id # None
       THEN Yield(Operation("UPDATE", "RDMParentMetadata", data.parent), "edit_draft")
       ELSE Raise
    /\ UNCHANGED <<gen_frame, ledger_vars, nextId, data, loc>>

\* drafts.py 212: forked_published.get("id") or draft["id"]
EditDraftId(forked_published, draft) == Or(DictGet(forked_published, "id"), draft.id)

\* DraftEditAction._generate_rows, lines 211-222: the draft id comes from the
\* forked record when there is one, else from the resolved state; assert
\* draft_id, then the draft update row
EditDraftUpdate ==
    /\ pc = "gen" /\ gpc = "edit_draft"
    /\ LET forked_published == StateGet(RECORDS, data.draft.json_id)
           draft_id == EditDraftId(forked_published, data.draft)
       IN
         IF draft_id # None
         THEN /\ data' = [data EXCEPT !.draft.id = draft_id]
              /\ Yield(Operation("UPDATE", "RDMDraftMetadata",
                          [data.draft EXCEPT !.id = draft_id]), "end")
         ELSE Raise /\ UNCHANGED data
    /\ UNCHANGED <<gen_frame, ledger_vars, nextId, loc>>


----------------------------------------------------------------------------
(* DraftCreateAction._generate_rows *)

\* _generate_pid_rows: a draft pid that is not a depid is added to PIDS
\* (which raises when the value is already there) and inserted
GeneratePidRows ==
    /\ pc = "gen" /\ gpc = "pid_rows"
    /\ LET pid == data.draft_pid IN
         IF pid.pid_type # "depid"
         THEN IF StateAddRaises(PIDS, pid.pid_value)
              THEN Raise /\ UNCHANGED PIDS
              ELSE /\ PIDS' = StateAdd(PIDS, pid.pid_value,
                                       [id |-> pid.id, pid_type |-> pid.pid_type])
                   /\ Yield(Operation("INSERT", "PersistentIdentifier", pid),
                            "bucket_rows")
         ELSE Goto("bucket_rows") /\ UNCHANGED PIDS
    /\ UNCHANGED <<gen_frame, PARENTS, RECORDS, BUCKETS, nextId, data, loc>>

\* _generate_bucket_rows
GenerateBucketRows ==
    /\ pc = "gen" /\ gpc = "bucket_rows"
    /\ Yield(Operation("INSERT", "FilesBucket", data.draft_bucket), "draft_rows")
    /\ UNCHANGED <<gen_frame, ledger_vars, nextId, data, loc>>

\* generate_parent_ops(parent, parent_pid): the parent-creation rows
ParentOps(parent, parent_pid) ==
    <<Operation("INSERT", "PersistentIdentifier", parent_pid),
      Operation("INSERT", "RDMParentMetadata", parent)>>

\* drafts.py 97: draft["parent_id"] = parent["id"]
BindDraftToParent(d) == [d EXCEPT !.draft.parent_id = d.parent.id]

\* variant of BindExistingParent that leaves parent["id"] as generated
BindExistingParentDraftOnly(d, existing_parent) ==
    [d EXCEPT !.draft.parent_id = existing_parent.id]

\* drafts.py 108-109: the known parent's id goes to parent and draft
BindExistingParent(d, existing_parent) ==
    [d EXCEPT !.parent.id = existing_parent.id,
              !.draft.parent_id = existing_parent.id]

\* variant of NoNextDraft without the assertion
NoNextDraftUnchecked(existing_parent) == TRUE

\* drafts.py 112: assert not existing_parent.get("next_draft_id")
NoNextDraft(existing_parent) == DictGet(existing_parent, "next_draft_id") = None

\* drafts.py 119: assert parent["id"] == forked_published["parent_id"]
ParentMatches(parent, forked_published) == parent.id = forked_published.parent_id

\* _generate_draft_rows, lines 82-119: the three branches on PARENTS and
\* RECORDS; `taken` records which branch ran
GenerateDraftRows ==
    /\ pc = "gen" /\ gpc = "draft_rows"
    /\ LET forked_published == StateGet(RECORDS, data.draft.json_id)
           existing_parent == StateGet(PARENTS, data.parent.json_id)
           d1 == BindDraftToParent(data)
           l1 == [forked_published |-> forked_published,
                  existing_parent |-> existing_parent]
       IN
         IF ~Truthy(existing_parent)
         THEN \* draft of a new record
              /\ PARENTS' = StateAdd(PARENTS, d1.parent.json_id,
                               ParentEntry([id |-> d1.parent.id,
                                            next_draft_id |-> d1.draft.id]))
              /\ data' = d1
              /\ loc' = l1 @@ [taken |-> {"new_record"}]
              /\ Yield(ParentOps(d1.parent, d1.parent_pid)[1], "parent_ops")
         ELSE LET d2 == BindExistingParent(d1, existing_parent) IN
              /\ data' = d2
              /\ IF ~Truthy(forked_published)
                 THEN \* new version
                      /\ loc' = l1 @@ [taken |-> {"new_version"}]
                      /\ IF /\ NoNextDraft(existing_parent)
                            /\ ~StateUpdateRaises(PARENTS, d2.parent.json_id)
                         THEN /\ PARENTS' = StateUpdate(PARENTS, d2.parent.json_id,
                                               [next_draft_id |-> d2.draft.id])
                              /\ Goto("pid_update")
                         ELSE Raise /\ UNCHANGED PARENTS
                 ELSE \* draft of a published record
                      /\ loc' = l1 @@ [taken |-> {"published_draft"}]
                      /\ UNCHANGED PARENTS
                      /\ IF ParentMatches(d2.parent, forked_published)
                         THEN Goto("pid_update")
                         ELSE Raise
    /\ UNCHANGED <<gen_frame, PIDS, RECORDS, BUCKETS, nextId>>

\* generate_parent_ops resumed: its second row
GenerateParentOps ==
    /\ pc = "gen" /\ gpc = "parent_ops"
    /\ Yield(ParentOps(data.parent, data.parent_pid)[2], "pid_update")
    /\ UNCHANGED <<gen_frame, ledger_vars, nextId, data, loc>>

\* variant of GeneratePidUpdate without the assertion and the update row
GeneratePidUpdateSkipped ==
    /\ pc = "gen" /\ gpc = "pid_update"
    /\ Goto("draft_insert")
    /\ UNCHANGED <<gen_frame, ledger_vars, nextId, data, loc>>

\* lines 121-141: without a forked record the recid must be in PIDS and is
\* linked to the draft by an update row
GeneratePidUpdate ==
    /\ pc = "gen" /\ gpc = "pid_update"
    /\ IF ~Truthy(loc.forked_published)
       THEN LET draft_pid == StateGet(PIDS, data.draft.json_id) IN
            IF Truthy(draft_pid)
            THEN Yield(Operation("UPDATE", "PersistentIdentifier",
                          [id |-> draft_pid.id,
                           pid_type |-> draft_pid.pid_type,
                           pid_value |-> data.draft.json_id,
                           object_type |-> "rec",
                           object_uuid |-> data.draft.id]),
                       "draft_insert")
            ELSE Raise
       ELSE Goto("draft_insert")
    /\ UNCHANGED <<gen_frame, ledger_vars, nextId, data, loc>>

\* lines 143-162: the bucket is registered in BUCKETS (which raises when it
\* is already there) and the draft row is inserted
GenerateDraftInsert ==
    /\ pc = "gen" /\ gpc = "draft_insert"
    /\ LET forked_published == loc.forked_published
           draft == data.draft
           draft_id == Or(DictGet(forked_published, "id"), draft.id)
       IN
         IF StateAddRaises(BUCKETS, draft.bucket_id)
         THEN Raise /\ UNCHANGED BUCKETS
         ELSE /\ BUCKETS' = StateAdd(BUCKETS, draft.bucket_id, [draft_id |-> draft_id])
              /\ Yield(Operation("INSERT", "RDMDraftMetadata",
                          [id |-> draft_id,
                           json_id |-> draft.json_id,
                           index |-> Or(DictGet(forked_published, "index"), draft.index),
                           bucket_id |-> draft.bucket_id,
                           parent_id |-> data.parent.id,
                           fork_version_id |->
                               Or(DictGet(forked_published, "fork_version_id"),
                                  draft.fork_version_id)]),
                       "version_state")
    /\ UNCHANGED <<gen_frame, PIDS, PARENTS, RECORDS, nextId, data, loc>>

\* variant of VersionOpType that always updates
VersionOpAlwaysUpdate(forked_published) == "UPDATE"

\* line 166: UPDATE if forked_published else INSERT
VersionOpType(forked_published) ==
    IF Truthy(forked_published) THEN "UPDATE" ELSE "INSERT"

\* lines 164-176: the parent's version-state row
GenerateVersionState ==
    /\ pc = "gen" /\ gpc = "version_state"
    /\ LET existing_parent == StateGet(PARENTS, data.parent.json_id) IN
         /\ loc' = [loc EXCEPT !.existing_parent = existing_parent]
         /\ Yield(Operation(VersionOpType(loc.forked_published), "RDMVersionState",
                     [latest_index |-> existing_parent.latest_index,
                      parent_id |-> existing_parent.id,
                      latest_id |-> existing_parent.latest_id,
                      next_draft_id |-> existing_parent.next_draft_id]),
                  "end")
    /\ UNCHANGED <<gen_frame, ledger_vars, nextId, data>>

----------------------------------------------------------------------------
(* PostgreSQLTx._execute_op and the end of _process_action *)

\* variant of Flush that leaves the statement pending
FlushDeferred(o, rows) == rows

\* execute.py 212: session.flush() after the statement, so that the rows the
\* session sees include it
Flush(o, rows) == OpApply(o, rows)

\* _execute_op: the statement is executed and flushed, then counted
ExecuteOp ==
    /\ pc = "exec"
    /\ IF OpRejected(op, db)
       THEN /\ pc' = "fail"
            /\ UNCHANGED <<db, stats_ops>>
       ELSE /\ db' = Flush(op, db)
            /\ stats_ops' = stats_ops + 1
            /\ pc' = "gen"
    /\ UNCHANGED <<exec_vars, pos, gpc, data, loc, op, ledger_vars, nextId,
                   savepoint, nested, durable, root, stats_tx, yielded, before, log>>

\* what the run recorded of the action that just ended: its position, its
\* outcome, the operations executed for it, its natural keys, whether its
\* parent was in PARENTS when it began, and the ids of the draft row it
\* inserted and of its parent
DraftRowId ==
    LET S == {i \in 1..Len(yielded) :
                 yielded[i].type = "INSERT" /\ yielded[i].model = "RDMDraftMetadata"}
    IN IF S = {} THEN None ELSE yielded[CHOOSE i \in S : TRUE].row.id

LogEntry(outcome) ==
    LET drafty == "draft" \in DOMAIN data /\ "parent" \in DOMAIN data IN
    [idx |-> pos, outcome |-> outcome, ops |-> stats_ops - before.ops,
     name |-> data.name,
     dk |-> IF drafty THEN data.draft.json_id ELSE None,
     pkey |-> IF drafty THEN data.parent.json_id ELSE None,
     parent_known |-> drafty /\ data.parent.json_id \in DOMAIN before.PARENTS,
     bucket |-> IF "draft_bucket" \in DOMAIN data THEN data.draft_bucket.id ELSE None,
     ov |-> IF "object_version" \in DOMAIN data
            THEN data.object_version.version_id
            ELSE IF "deleted_object_version" \in DOMAIN data
                 THEN data.deleted_object_version.version_id
                 ELSE None,
     was_head |-> /\ "deleted_object_version" \in DOMAIN data
                  /\ data.deleted_object_version.version_id
                        \in DOMAIN before.db["FilesObjectVersion"]
                  /\ before.db["FilesObjectVersion"]
                        [data.deleted_object_version.version_id].is_head,
     supplied |-> \/ /\ "replaced_object_version" \in DOMAIN data
                     /\ Truthy(data.replaced_object_version)
                  \/ /\ "delete_marker_object_version" \in DOMAIN data
                     /\ Truthy(data.delete_marker_object_version),
     draft_id |-> DraftRowId,
     parent_id |-> IF drafty THEN data.parent.id ELSE None]

\* rows of the session after nested_trans.commit(): the savepoint is released
NestedCommit(rows, sp) == rows

\* variant of NestedRollback that keeps the rows of the failed action
NestedRollbackKeeps(rows, sp) == rows

\* rows of the session after nested_trans.rollback()
NestedRollback(rows, sp) == sp

\* variant of AfterCommit in which the try block fails after the commit
AfterCommitFails == "fail"

\* execute.py 156-161: after nested_trans.commit() the try block ends
\* normally and _process_action returns to the loop
AfterCommit == "loop"

\* the generator is exhausted: nested_trans.commit(), stats.tx += 1
Commit ==
    /\ pc = "gen" /\ gpc = "end"
    /\ db' = NestedCommit(db, savepoint)
    /\ nested' = "committed"
    /\ stats_tx' = stats_tx + 1
    /\ log' = Append(log, LogEntry("commit"))
    /\ pc' = AfterCommit
    /\ gpc' = "none"
    /\ UNCHANGED <<exec_vars, pos, data, loc, op, ledger_vars, nextId, savepoint,
                   durable, root, stats_ops, yielded, before>>

\* variants of AfterRollback: always re-raise, never re-raise
AlwaysPropagate(raise) == "propagate"
NeverPropagate(raise) == "loop"

\* where _process_action's except block leaves after the rollback
AfterRollback(raise) == IF raise THEN "propagate" ELSE "loop"

\* except block of _process_action: nested_trans.rollback(), then re-raise
\* when raise_on_db_error
Rollback ==
    /\ pc = "fail"
    /\ db' = NestedRollback(db, savepoint)
    /\ nested' = "rolled_back"
    /\ log' = Append(log, LogEntry("rollback"))
    /\ pc' = AfterRollback(raise_on_db_error)
    /\ gpc' = "none"
    /\ UNCHANGED <<exec_vars, pos, data, loc, op, ledger_vars, nextId, savepoint,
                   durable, root, stats_vars, yielded, before>>

\* variant of LoadFinally without the rollback of the outer transaction
LoadFinallyKeeps(is_dry, outer, rows, committed) == rows

\* finally block of _load: rows of the session when _load is left
LoadFinally(is_dry, outer, rows, committed) ==
    IF is_dry /\ outer = "open" THEN committed ELSE rows

RootAfterLoad(is_dry, outer) == IF is_dry /\ outer = "open" THEN "closed" ELSE outer

\* the feed is exhausted: finally block, run() returns
LoadEnd ==
    /\ pc = "loop"
    /\ pos = feedLen
    /\ db' = LoadFinally(dry, root, db, durable)
    /\ root' = RootAfterLoad(dry, root)
    /\ pc' = "returned"
    /\ UNCHANGED <<exec_vars, pos, gpc, data, loc, op, ledger_vars, nextId,
                   savepoint, nested, durable, stats_vars, yielded, before, log>>

\* except block of _load: the exception is logged, re-raised when
\* raise_on_db_error, and the finally block runs first
LoadExcept ==
    /\ pc = "propagate"
    /\ db' = LoadFinally(dry, root, db, durable)
    /\ root' = RootAfterLoad(dry, root)
    /\ pc' = IF raise_on_db_error THEN "raised" ELSE "returned"
    /\ UNCHANGED <<exec_vars, pos, gpc, data, loc, op, ledger_vars, nextId,
                   savepoint, nested, durable, stats_vars, yielded, before, log>>

----------------------------------------------------------------------------

Feed ==
    {DraftCreateData(dk, pkey, t, b) :
        dk \in DraftKeys, pkey \in ParentKeys, t \in PidTypes, b \in BucketIds}
    \cup {DraftEditData(dk, pkey) : dk \in DraftKeys, pkey \in ParentKeys}

Next ==
    \/ LoadBegin
    \/ \E d \in Feed : ProcessAction(d)
    \/ FeedRaises
    \/ PrepareGeneratePks
    \/ PrepareResolveReferences
    \/ EditResolveReferences
    \/ EditParentUpdate
    \/ EditDraftUpdate
    \/ GeneratePidRows
    \/ GenerateBucketRows
    \/ GenerateDraftRows
    \/ GenerateParentOps
    \/ GeneratePidUpdate
    \/ GenerateDraftInsert
    \/ GenerateVersionState
    \/ ExecuteOp
    \/ Commit
    \/ Rollback
    \/ LoadEnd
    \/ LoadExcept

Spec == Init /\ [][Next]_vars


----------------------------------------------------------------------------
(* Primary-key generation on its own: _generate_pks applied twice to one   *)
(* payload.                                                                *)

\* an attribute of the payload: empty, without a key, or already keyed
PksAttrs(fields) ==
    {EmptyDict, fields @@ [id |-> None], fields @@ [id |-> 11]}

PksInputs ==
    {[name |-> "create-draft", draft_pid |-> a, draft |-> b, parent_pid |-> c,
      parent |-> d, draft_bucket |-> [id |-> "b1"]] :
        a \in PksAttrs([pid_type |-> "recid"]), b \in PksAttrs([json_id |-> "r2"]),
        c \in PksAttrs([pid_type |-> "recid"]), d \in PksAttrs([json_id |-> "p2"])}

pks_frame == <<exec_vars, pos, gpc, op, ledger_vars, db, savepoint, nested, durable, root,
               stats_vars, yielded, before, log>>

InitPks ==
    /\ dry = TRUE
    /\ raise_on_db_error = FALSE
    /\ feedLen = 1
    /\ pos = 0
    /\ pc = "pks_input"
    /\ gpc = "none"
    /\ data \in PksInputs
    /\ loc = [first |-> NoData]
    /\ op = NoOp
    /\ PIDS = InitPIDS
    /\ PARENTS = InitPARENTS
    /\ RECORDS = InitRECORDS
    /\ BUCKETS = InitBUCKETS
    /\ nextId \in {1, 2}
    /\ db = InitDb
    /\ savepoint = InitDb
    /\ nested = "none"
    /\ durable = InitDb
    /\ root = "none"
    /\ stats_tx = 0
    /\ stats_ops = 0
    /\ yielded = <<>>
    /\ before = NoBefore
    /\ log = <<>>

\* _generate_pks over the payload as it came
PksOnce ==
    /\ pc = "pks_input"
    /\ LET r == GeneratePks(data, PksOf(data.name), nextId) IN
         /\ data' = r.data
         /\ nextId' = r.nextId
         /\ loc' = [first |-> r.data]
    /\ pc' = "pks_once"
    /\ UNCHANGED pks_frame

\* _generate_pks again over the payload it has keyed
PksTwice ==
    /\ pc = "pks_once"
    /\ LET r == GeneratePks(data, PksOf(data.name), nextId) IN
         /\ data' = r.data
         /\ nextId' = r.nextId
    /\ pc' = "pks_twice"
    /\ UNCHANGED <<pks_frame, loc>>

NextPks == PksOnce \/ PksTwice

SpecPks == InitPks /\ [][NextPks]_vars

----------------------------------------------------------------------------
(* File actions: FileUploadAction, FileDeleteAction, MediaFileUploadAction *)
(* and MediaFileDeleteAction, run by the same executor over a store that   *)
(* holds a draft's files.                                                  *)

FileKey == "k1"
FileOv == 501
MediaOv == 502
UnknownOv == 509
SuppliedMarker == 601
DraftFileId == 401
DraftMediaFileId == 402
FilesDraftId == 111
UploadOvs == {511, 512}
MediaUploadOv == 521
FilesPidId == 311

\* a media bucket the store does not hold yet
NewMediaBucket == "b3"

\* MediaFileUploadData.pid_value when the payload has none: the test
\* `if self.data.pid_value` fails on it
NoPidValue == ""

\* Longest feed of file actions.
MaxFileFeed == 3

\* bucket of an object version: the draft's bucket, or its media bucket
OvBucket(v) == IF v \in {MediaOv, MediaUploadOv} THEN "b2" ELSE "b1"

\* rows of the store before the run: the draft with its identifier and its
\* two buckets, the head object version of a file and of a media file, and
\* optionally the draft's file record and media file record
FilesDb(hasFile, hasMedia) ==
    [m \in Models |->
       CASE m = "FilesBucket" -> ("b1" :> [id |-> "b1"]) @@ ("b2" :> [id |-> "b2"])
         [] m = "FilesObjectVersion" ->
              (FileOv :> [version_id |-> FileOv, bucket_id |-> "b1",
                          key |-> FileKey, is_head |-> TRUE])
              @@ (MediaOv :> [version_id |-> MediaOv, bucket_id |-> "b2",
                              key |-> FileKey, is_head |-> TRUE])
         [] m = "RDMDraftMetadata" ->
              (FilesDraftId :> [id |-> FilesDraftId, json_id |-> "r1",
                                bucket_id |-> "b1", media_bucket_id |-> "b2"])
         [] m = "PersistentIdentifier" ->
              (FilesPidId :> [id |-> FilesPidId, pid_type |-> "recid",
                              pid_value |-> "r1", object_uuid |-> FilesDraftId])
         [] m = "RDMDraftFile" ->
              IF hasFile
              THEN (DraftFileId :> [id |-> DraftFileId, key |-> FileKey,
                                    object_version_id |-> FileOv])
              ELSE [k \in {} |-> EmptyDict]
         [] m = "RDMDraftMediaFile" ->
              IF hasMedia
              THEN (DraftMediaFileId :> [id |-> DraftMediaFileId, key |-> FileKey,
                                         object_version_id |-> MediaOv])
              ELSE [k \in {} |-> EmptyDict]
         [] OTHER -> InitDb[m]]

\* FileDeleteData / MediaFileDeleteData as the transform step hands it over
FileDeleteData(name, v, supplied) ==
    [name |-> name,
     bucket |-> [id |-> OvBucket(v)],
     deleted_object_version |-> [version_id |-> v, bucket_id |-> OvBucket(v),
                                 key |-> FileKey, is_head |-> TRUE],
     delete_marker_object_version |->
         IF supplied
         THEN [version_id |-> SuppliedMarker, bucket_id |-> OvBucket(v),
               key |-> FileKey, is_head |-> TRUE]
         ELSE EmptyDict]

FileDeleteNames == {"file-delete", "media-file-delete"}

\* FileUploadData as the transform step hands it over: the new object
\* version `v` of the draft's bucket with its file instance, the file record
\* without its keys, and optionally the version it replaces
FileUploadData(v, replaced) ==
    [name |-> "file-upload",
     bucket |-> [id |-> "b1"],
     object_version |-> [version_id |-> v, bucket_id |-> "b1", key |-> FileKey,
                         file_id |-> v, is_head |-> TRUE],
     file_instance |-> [id |-> v],
     file_record |-> [id |-> None, key |-> FileKey, object_version_id |-> None],
     replaced_object_version |->
         IF replaced = None THEN EmptyDict ELSE [version_id |-> replaced]]

\* MediaFileUploadData as the transform step hands it over: the new object
\* version `v` with its file instance, the media file record without its
\* keys, optionally the version it replaces, and, when the media bucket is
\* new, the identifier value of the draft it belongs to
MediaFileUploadData(v, replaced, pid) ==
    LET b == IF pid = NoPidValue THEN "b2" ELSE NewMediaBucket IN
    [name |-> "media-file-upload",
     bucket |-> [id |-> b],
     object_version |-> [version_id |-> v, bucket_id |-> b, key |-> FileKey,
                         file_id |-> v, is_head |-> TRUE],
     file_instance |-> [id |-> v],
     file_record |-> [id |-> None, key |-> FileKey, object_version_id |-> None],
     replaced_object_version |->
         IF replaced = None THEN EmptyDict ELSE [version_id |-> replaced],
     pid_value |-> pid]

\* LoadAction._resolve_references: nothing to resolve
DefaultResolveReferences ==
    /\ pc = "gen" /\ gpc = "refs"
    /\ data.name \in FileDeleteNames \cup {"file-upload", "media-file-upload"}
    /\ Goto(CASE data.name = "file-upload" -> "upload_bucket"
              [] data.name = "media-file-upload" -> "mupload_bucket"
              [] OTHER -> "delete_bucket")
    /\ UNCHANGED <<gen_frame, ledger_vars, nextId, data, loc>>

\* files.py 116-123: the delete marker generated for the deleted version
GeneratedMarker(bucket, deleted_ov, n) ==
    [version_id |-> PkFunc(n), bucket_id |-> bucket.id, key |-> deleted_ov.key,
     is_head |-> TRUE]

\* result of scalars(select ...).one_or_none() over the rows `ids`, one
\* element per result row: no row, the one row, or MultipleResultsFound
OneOrNone(ids) ==
    [raises |-> Len(ids) > 1,
     found |-> Len(ids) = 1,
     id |-> IF Len(ids) = 1 THEN ids[1] ELSE None]

\* ids of the rows of `model` with the object version and key of `ov`
MatchingIds(rows, model, ov) ==
    {k \in DOMAIN rows[model] :
        /\ rows[model][k].object_version_id = ov.version_id
        /\ rows[model][k].key = ov.key}

\* a set of ids, or pairs of ids, as a sequence of result rows
RECURSIVE AsRows(_)
AsRows(S) == IF S = {} THEN <<>>
             ELSE LET x == CHOOSE x \in S : TRUE IN <<x>> \o AsRows(S \ {x})

\* files.py 127-132: select(RDMDraftFile) where RDMDraftFile matches
FileRecordQuery(rows, ov) == AsRows(MatchingIds(rows, "RDMDraftFile", ov))

\* files.py 272-277: select(RDMDraftFile) where RDMDraftMediaFile matches:
\* the statement reads from both tables with no join condition, so it
\* returns the draft file of every pair of a draft file and a matching
\* media file
MediaFileRecordQuery(rows, ov) ==
    LET pairs == (DOMAIN rows["RDMDraftFile"])
                   \X MatchingIds(rows, "RDMDraftMediaFile", ov)
        pairRows == AsRows(pairs)
    IN [i \in 1..Len(pairRows) |-> pairRows[i][1]]

\* result of execute(select ...).scalar_one() over the result rows `ids`:
\* NoResultFound or MultipleResultsFound unless there is exactly one row
ScalarOne(ids) ==
    [raises |-> Len(ids) # 1,
     id |-> IF Len(ids) = 1 THEN ids[1] ELSE None]

\* files.py 48-54: version ids of the head versions of a bucket and key
HeadQuery(rows, bucket_id, key) ==
    AsRows({v \in DOMAIN rows["FilesObjectVersion"] :
               /\ rows["FilesObjectVersion"][v].bucket_id = bucket_id
               /\ rows["FilesObjectVersion"][v].key = key
               /\ rows["FilesObjectVersion"][v].is_head = TRUE})

\* files.py 69-73: ids of the file records of an object version
FileRecordOfVersion(rows, version_id) ==
    AsRows({k \in DOMAIN rows["RDMDraftFile"] :
               rows["RDMDraftFile"][k].object_version_id = version_id})

\* files.py 78-82: ids of the drafts of a bucket
DraftOfBucket(rows, bucket_id) ==
    AsRows({k \in DOMAIN rows["RDMDraftMetadata"] :
               rows["RDMDraftMetadata"][k].bucket_id = bucket_id})

\* FileUploadAction._generate_rows, lines 44-46
FileUploadBucket ==
    /\ pc = "gen" /\ gpc = "upload_bucket"
    /\ Yield(Operation("UPDATE", "FilesBucket", data.bucket), "upload_head")
    /\ UNCHANGED <<gen_frame, ledger_vars, nextId, data, loc>>

\* lines 47-65: without an explicit replaced version the head of the bucket
\* and key is looked up in the store; a replaced version loses its head flag,
\* otherwise the file instance is inserted next
FileUploadHead ==
    /\ pc = "gen" /\ gpc = "upload_head"
    /\ LET given == data.replaced_object_version
           head == OneOrNone(HeadQuery(db, data.bucket.id, data.object_version.key))
           replaced_ov == IF Truthy(given) THEN given
                          ELSE IF head.found THEN [version_id |-> head.id]
                          ELSE EmptyDict
       IN
         IF ~Truthy(given) /\ head.raises
         THEN Raise /\ UNCHANGED loc
         ELSE /\ loc' = [taken |-> {}, replaced_ov |-> replaced_ov]
              /\ IF Truthy(replaced_ov)
                 THEN Yield(Operation("UPDATE", "FilesObjectVersion",
                               [version_id |-> replaced_ov.version_id,
                                is_head |-> FALSE]),
                            "upload_instance")
                 ELSE Yield(Operation("INSERT", "FilesInstance", data.file_instance),
                            "upload_ov")
    /\ UNCHANGED <<gen_frame, ledger_vars, nextId, data>>

\* line 65, after the update of a replaced version
FileUploadInstance ==
    /\ pc = "gen" /\ gpc = "upload_instance"
    /\ Yield(Operation("INSERT", "FilesInstance", data.file_instance), "upload_ov")
    /\ UNCHANGED <<gen_frame, ledger_vars, nextId, data, loc>>

\* line 66
FileUploadObjectVersion ==
    /\ pc = "gen" /\ gpc = "upload_ov"
    /\ Yield(Operation("INSERT", "FilesObjectVersion", data.object_version),
             "upload_record")
    /\ UNCHANGED <<gen_frame, ledger_vars, nextId, data, loc>>

\* lines 67-84: the file record of the replaced version is updated to point
\* at the new version, or a file record is inserted for the draft of the
\* bucket
FileUploadRecord ==
    /\ pc = "gen" /\ gpc = "upload_record"
    /\ LET file_record == [data.file_record EXCEPT
                              !.object_version_id = data.object_version.version_id]
       IN
         IF Truthy(loc.replaced_ov)
         THEN LET r == ScalarOne(FileRecordOfVersion(db, loc.replaced_ov.version_id))
              IN IF r.raises
                 THEN /\ data' = [data EXCEPT !.file_record = file_record]
                      /\ Raise
                 ELSE /\ data' = [data EXCEPT !.file_record =
                                      [file_record EXCEPT !.id = r.id]]
                      /\ Yield(Operation("UPDATE", "RDMDraftFile",
                                  [file_record EXCEPT !.id = r.id]), "end")
         ELSE LET r == ScalarOne(DraftOfBucket(db, data.bucket.id))
              IN IF r.raises
                 THEN /\ data' = [data EXCEPT !.file_record = file_record]
                      /\ Raise
                 ELSE /\ data' = [data EXCEPT !.file_record =
                                      Merge(file_record, [record_id |-> r.id])]
                      /\ Yield(Operation("INSERT", "RDMDraftFile",
                                  Merge(file_record, [record_id |-> r.id])), "end")
    /\ UNCHANGED <<gen_frame, ledger_vars, nextId, loc>>

\* files.py 167-172: session.scalar() of the object_uuid of the recid
\* identifiers with the value `pid_value`: the first row's, or None
DraftOfPid(rows, pid_value) ==
    LET S == {k \in DOMAIN rows["PersistentIdentifier"] :
                 /\ rows["PersistentIdentifier"][k].pid_type = "recid"
                 /\ rows["PersistentIdentifier"][k].pid_value = pid_value}
    IN IF S = {} THEN None
       ELSE rows["PersistentIdentifier"][CHOOSE k \in S : TRUE].object_uuid

\* files.py 204-208: ids of the media file records of an object version
MediaFileRecordOfVersion(rows, version_id) ==
    AsRows({k \in DOMAIN rows["RDMDraftMediaFile"] :
               rows["RDMDraftMediaFile"][k].object_version_id = version_id})

\* files.py 217-221: ids of the drafts of a media bucket
DraftOfMediaBucket(rows, bucket_id) ==
    AsRows({k \in DOMAIN rows["RDMDraftMetadata"] :
               rows["RDMDraftMetadata"][k].media_bucket_id = bucket_id})

\* MediaFileUploadAction._generate_rows, lines 159-165 and 179-180: with a
\* pid_value the media bucket is new and is inserted, otherwise it is updated
MediaFileUploadBucket ==
    /\ pc = "gen" /\ gpc = "mupload_bucket"
    /\ IF data.pid_value # NoPidValue
       THEN Yield(Operation("INSERT", "FilesBucket", data.bucket), "mupload_draft")
       ELSE Yield(Operation("UPDATE", "FilesBucket", data.bucket), "mupload_head")
    /\ UNCHANGED <<gen_frame, ledger_vars, nextId, data, loc>>

\* lines 166-178: the draft of the identifier gets the new media bucket
MediaFileUploadDraft ==
    /\ pc = "gen" /\ gpc = "mupload_draft"
    /\ LET draft_id == DraftOfPid(db, data.pid_value) IN
         IF draft_id = None
         THEN Raise
         ELSE Yield(Operation("UPDATE", "RDMDraftMetadata",
                       [id |-> draft_id, media_bucket_id |-> data.bucket.id]),
                    "mupload_head")
    /\ UNCHANGED <<gen_frame, ledger_vars, nextId, data, loc>>

\* lines 182-200: without an explicit replaced version the head of the bucket
\* and key is looked up in the store; a replaced version loses its head flag,
\* otherwise the file instance is inserted next
MediaFileUploadHead ==
    /\ pc = "gen" /\ gpc = "mupload_head"
    /\ LET given == data.replaced_object_version
           head == OneOrNone(HeadQuery(db, data.bucket.id, data.object_version.key))
           replaced_ov == IF Truthy(given) THEN given
                          ELSE IF head.found THEN [version_id |-> head.id]
                          ELSE EmptyDict
       IN
         IF ~Truthy(given) /\ head.raises
         THEN Raise /\ UNCHANGED loc
         ELSE /\ loc' = [taken |-> {}, replaced_ov |-> replaced_ov]
              /\ IF Truthy(replaced_ov)
                 THEN Yield(Operation("UPDATE", "FilesObjectVersion",
                               [version_id |-> replaced_ov.version_id,
                                is_head |-> FALSE]),
                            "mupload_instance")
                 ELSE Yield(Operation("INSERT", "FilesInstance", data.file_instance),
                            "mupload_ov")
    /\ UNCHANGED <<gen_frame, ledger_vars, nextId, data>>

\* line 200, after the update of a replaced version
MediaFileUploadInstance ==
    /\ pc = "gen" /\ gpc = "mupload_instance"
    /\ Yield(Operation("INSERT", "FilesInstance", data.file_instance), "mupload_ov")
    /\ UNCHANGED <<gen_frame, ledger_vars, nextId, data, loc>>

\* line 201
MediaFileUploadObjectVersion ==
    /\ pc = "gen" /\ gpc = "mupload_ov"
    /\ Yield(Operation("INSERT", "FilesObjectVersion", data.object_version),
             "mupload_record")
    /\ UNCHANGED <<gen_frame, ledger_vars, nextId, data, loc>>

\* lines 202-227: the media file record of the replaced version is updated to
\* point at the new version, or a media file record is inserted for the
\* draft of the media bucket
MediaFileUploadRecord ==
    /\ pc = "gen" /\ gpc = "mupload_record"
    /\ LET file_record == [data.file_record EXCEPT
                              !.object_version_id = data.object_version.version_id]
       IN
         IF Truthy(loc.replaced_ov)
         THEN LET r == ScalarOne(MediaFileRecordOfVersion(
                                     db, loc.replaced_ov.version_id))
              IN IF r.raises
                 THEN /\ data' = [data EXCEPT !.file_record = file_record]
                      /\ Raise
                 ELSE /\ data' = [data EXCEPT !.file_record =
                                      [file_record EXCEPT !.id = r.id]]
                      /\ Yield(Operation("UPDATE", "RDMDraftMediaFile",
                                  [file_record EXCEPT !.id = r.id]), "end")
         ELSE LET r == ScalarOne(DraftOfMediaBucket(db, data.bucket.id))
              IN IF r.raises
                 THEN /\ data' = [data EXCEPT !.file_record = file_record]
                      /\ Raise
                 ELSE /\ data' = [data EXCEPT !.file_record =
                                      Merge(file_record, [record_id |-> r.id])]
                      /\ Yield(Operation("INSERT", "RDMDraftMediaFile",
                                  Merge(file_record, [record_id |-> r.id])), "end")
    /\ UNCHANGED <<gen_frame, ledger_vars, nextId, loc>>

\* FileDeleteAction._generate_rows, line 109
FileDeleteBucket ==
    /\ pc = "gen" /\ gpc = "delete_bucket"
    /\ data.name = "file-delete"
    /\ Yield(Operation("UPDATE", "FilesBucket", data.bucket), "delete_ov")
    /\ UNCHANGED <<gen_frame, ledger_vars, nextId, data, loc>>

\* lines 112-113: the deleted version is no longer the head
FileDeleteObjectVersion ==
    /\ pc = "gen" /\ gpc = "delete_ov"
    /\ data.name = "file-delete"
    /\ data' = [data EXCEPT !.deleted_object_version.is_head = FALSE]
    /\ Yield(Operation("UPDATE", "FilesObjectVersion",
                [data.deleted_object_version EXCEPT !.is_head = FALSE]),
             "delete_marker")
    /\ UNCHANGED <<gen_frame, ledger_vars, nextId, loc>>

\* lines 115-124: a marker is generated and inserted when none was supplied
FileDeleteMarker ==
    /\ pc = "gen" /\ gpc = "delete_marker"
    /\ data.name = "file-delete"
    /\ IF ~Truthy(data.delete_marker_object_version)
       THEN /\ nextId' = nextId + 1
            /\ Yield(Operation("INSERT", "FilesObjectVersion",
                        GeneratedMarker(data.bucket, data.deleted_object_version,
                                        nextId)),
                     "delete_record")
       ELSE Goto("delete_record") /\ UNCHANGED nextId
    /\ UNCHANGED <<gen_frame, ledger_vars, data, loc>>

\* lines 126-134: the draft's file record is looked up and deleted
FileDeleteRecord ==
    /\ pc = "gen" /\ gpc = "delete_record"
    /\ data.name = "file-delete"
    /\ LET file_record == OneOrNone(FileRecordQuery(db, data.deleted_object_version))
       IN IF file_record.raises THEN Raise
          ELSE IF file_record.found
          THEN Yield(Operation("DELETE", "RDMDraftFile", [id |-> file_record.id]),
                     "end")
          ELSE Goto("end")
    /\ UNCHANGED <<gen_frame, ledger_vars, nextId, data, loc>>

\* MediaFileDeleteAction._generate_rows, line 253
MediaFileDeleteBucket ==
    /\ pc = "gen" /\ gpc = "delete_bucket"
    /\ data.name = "media-file-delete"
    /\ Yield(Operation("UPDATE", "FilesBucket", data.bucket), "delete_ov")
    /\ UNCHANGED <<gen_frame, ledger_vars, nextId, data, loc>>

\* lines 256-257
MediaFileDeleteObjectVersion ==
    /\ pc = "gen" /\ gpc = "delete_ov"
    /\ data.name = "media-file-delete"
    /\ data' = [data EXCEPT !.deleted_object_version.is_head = FALSE]
    /\ Yield(Operation("UPDATE", "FilesObjectVersion",
                [data.deleted_object_version EXCEPT !.is_head = FALSE]),
             "delete_marker")
    /\ UNCHANGED <<gen_frame, ledger_vars, nextId, loc>>

\* lines 259-268
MediaFileDeleteMarker ==
    /\ pc = "gen" /\ gpc = "delete_marker"
    /\ data.name = "media-file-delete"
    /\ IF ~Truthy(data.delete_marker_object_version)
       THEN /\ nextId' = nextId + 1
            /\ Yield(Operation("INSERT", "FilesObjectVersion",
                        GeneratedMarker(data.bucket, data.deleted_object_version,
                                        nextId)),
                     "delete_record")
       ELSE Goto("delete_record") /\ UNCHANGED nextId
    /\ UNCHANGED <<gen_frame, ledger_vars, data, loc>>

\* lines 270-283: the record is looked up and deleted from RDMDraftMediaFile
MediaFileDeleteRecord ==
    /\ pc = "gen" /\ gpc = "delete_record"
    /\ data.name = "media-file-delete"
    /\ LET file_record ==
               OneOrNone(MediaFileRecordQuery(db, data.deleted_object_version))
       IN IF file_record.raises THEN Raise
          ELSE IF file_record.found
          THEN Yield(Operation("DELETE", "RDMDraftMediaFile",
                        [id |-> file_record.id]), "end")
          ELSE Goto("end")
    /\ UNCHANGED <<gen_frame, ledger_vars, nextId, data, loc>>

FilesFeed ==
    {FileDeleteData("file-delete", v, supplied) :
        v \in {FileOv, UnknownOv} \cup UploadOvs, supplied \in BOOLEAN}
    \cup {FileDeleteData("media-file-delete", MediaOv, supplied) :
             supplied \in BOOLEAN}
    \cup {FileDeleteData("media-file-delete", MediaUploadOv, FALSE)}
    \cup {FileUploadData(v, replaced) : v \in UploadOvs, replaced \in {None, FileOv}}
    \cup {MediaFileUploadData(MediaUploadOv, None, pid) : pid \in {NoPidValue, "r1"}}

InitFiles ==
    /\ dry = FALSE
    /\ raise_on_db_error \in BOOLEAN
    /\ feedLen \in 1..MaxFileFeed
    /\ pos = 0
    /\ pc = "idle"
    /\ gpc = "none"
    /\ data = NoData
    /\ loc = NoLoc
    /\ op = NoOp
    /\ PIDS = InitPIDS
    /\ PARENTS = InitPARENTS
    /\ RECORDS = InitRECORDS
    /\ BUCKETS = InitBUCKETS
    /\ nextId = 1
    /\ \E hasFile \in BOOLEAN, hasMedia \in BOOLEAN : db = FilesDb(hasFile, hasMedia)
    /\ savepoint = db
    /\ nested = "none"
    /\ durable = db
    /\ root = "none"
    /\ stats_tx = 0
    /\ stats_ops = 0
    /\ yielded = <<>>
    /\ before = [NoBefore EXCEPT !.db = db]
    /\ log = <<>>

NextFiles ==
    \/ LoadBegin
    \/ \E d \in FilesFeed : ProcessAction(d)
    \/ FeedRaises
    \/ PrepareGeneratePks
    \/ DefaultResolveReferences
    \/ FileUploadBucket
    \/ FileUploadHead
    \/ FileUploadInstance
    \/ FileUploadObjectVersion
    \/ FileUploadRecord
    \/ MediaFileUploadBucket
    \/ MediaFileUploadDraft
    \/ MediaFileUploadHead
    \/ MediaFileUploadInstance
    \/ MediaFileUploadObjectVersion
    \/ MediaFileUploadRecord
    \/ FileDeleteBucket
    \/ FileDeleteObjectVersion
    \/ FileDeleteMarker
    \/ FileDeleteRecord
    \/ MediaFileDeleteBucket
    \/ MediaFileDeleteObjectVersion
    \/ MediaFileDeleteMarker
    \/ MediaFileDeleteRecord
    \/ ExecuteOp
    \/ Commit
    \/ Rollback
    \/ LoadEnd
    \/ LoadExcept

SpecFiles == InitFiles /\ [][NextFiles]_vars

----------------------------------------------------------------------------
(* Properties *)

\* outcome of the action taken last from the feed, once it has ended
LastOutcome ==
    IF log # <<>> /\ log[Len(log)].idx = pos THEN log[Len(log)].outcome ELSE "running"

LastOps == IF log # <<>> THEN log[Len(log)].ops ELSE 0

Committed == {i \in 1..Len(log) : log[i].outcome = "commit"}
RolledBack == {i \in 1..Len(log) : log[i].outcome = "rollback"}

RECURSIVE SumOps(_)
SumOps(S) == IF S = {} THEN 0
             ELSE LET i == CHOOSE i \in S : TRUE IN log[i].ops + SumOps(S \ {i})

RECURSIVE ApplyAll(_, _)
ApplyAll(ops, rows) ==
    IF ops = <<>> THEN rows ELSE ApplyAll(Tail(ops), OpApply(Head(ops), rows))

\* positions of the feed whose load action could not be constructed: the
\* loop has ended before the end of the feed, and not by a rolled-back
\* action whose error was re-raised
ShapeErrors ==
    IF /\ pc \in {"propagate", "returned", "raised"}
       /\ pos < feedLen
       /\ ~(raise_on_db_error /\ LastOutcome = "rollback")
    THEN {pos + 1} ELSE {}

BetweenActions == pc \in {"loop", "propagate", "returned", "raised"}

\* C1: once a failed action has been rolled back, PIDS, PARENTS and BUCKETS
\* hold exactly the entries they held when the action began.
C1_LedgersRestoredAfterRollback ==
    LastOutcome = "rollback" =>
        /\ PIDS = before.PIDS
        /\ PARENTS = before.PARENTS
        /\ BUCKETS = before.BUCKETS

\* C2: after the rollback of a failed action the session holds the rows it
\* held when the action began (while the outermost transaction is open):
\* no operation of the failed action persists, earlier rows are unchanged.
C2_RowsRestoredAfterRollback ==
    (LastOutcome = "rollback" /\ root = "open") => db = before.db

C2_Witness ==
    /\ LastOutcome = "rollback"
    /\ pc = "loop"
    /\ LastOps > 0
    /\ Committed # {}
    /\ db # InitDb

C4_FirstFailureAbortsRun ==
    raise_on_db_error =>
        \A i \in RolledBack :
            /\ i = Len(log)
            /\ pos = i
            /\ pc \in {"propagate", "raised"}
            /\ root = "open" => db = before.db

C4_Witness ==
    /\ raise_on_db_error
    /\ pc = "raised"
    /\ pos < feedLen
    /\ LastOps > 0

\* C5: when a dry run has returned or raised, the rows of the target store
\* are those before the run, and the statistics report the committed actions
\* and the executed operations of the run.
C5_DryRunLeavesNoRows ==
    (dry /\ pc \in {"returned", "raised"}) =>
        /\ db = InitDb
        /\ durable = InitDb
        /\ stats_tx = Cardinality(Committed)
        /\ stats_ops = SumOps(1..Len(log))

C5_Witness ==
    /\ dry
    /\ pc = "raised"
    /\ stats_tx > 0
    /\ LastOps > 0

\* C6: when a non-dry run returns, the rows of every committed action are
\* committed to the database.
C6_CommittedRowsDurable ==
    (~dry /\ pc = "returned") => durable = db

\* C7: between actions stats.tx counts the committed actions and stats.ops
\* the operations of the committed actions only.
C7_StatsCountCommittedOnly ==
    BetweenActions =>
        /\ stats_tx = Cardinality(Committed)
        /\ stats_ops = SumOps(Committed)

\* the draft row inserted by the current action
DraftInserts ==
    {i \in 1..Len(yielded) :
        yielded[i].type = "INSERT" /\ yielded[i].model = "RDMDraftMetadata"}

InCreate == data.name = "create-draft" /\ pc \in {"gen", "exec", "fail", "loop",
                                                   "propagate", "returned", "raised"}

ParentKnown == data.parent.json_id \in DOMAIN before.PARENTS
ForkedPresent == data.draft.json_id \in DOMAIN RECORDS
DraftRowsRan == "forked_published" \in DOMAIN loc

\* C8: a draft creation takes exactly one branch, fixed by PARENTS and
\* RECORDS, and from then on the parent's id is the parent_id of the draft
\* and of the draft row it inserts.
C8_OneCaseAndParentIdBound ==
    (InCreate /\ DraftRowsRan) =>
        /\ Cardinality(loc.taken) = 1
        /\ "new_record" \in loc.taken <=> ~ParentKnown
        /\ "new_version" \in loc.taken <=> (ParentKnown /\ ~ForkedPresent)
        /\ "published_draft" \in loc.taken <=> (ParentKnown /\ ForkedPresent)
        /\ data.parent.id = data.draft.parent_id
        /\ data.parent.id # None
        /\ \A i \in DraftInserts : yielded[i].row.parent_id = data.parent.id

C8_Witness ==
    /\ InCreate
    /\ pc = "gen" /\ gpc = "end"
    /\ loc.taken = {"published_draft"}
    /\ DraftInserts # {}

\* C9: a draft creation for a known parent that already has a next draft,
\* with no forked published record, fails at its assertion and leaves the
\* parent's next_draft_id as it was.
SecondDraft ==
    /\ InCreate
    /\ ParentKnown
    /\ before.PARENTS[data.parent.json_id].next_draft_id # None
    /\ ~ForkedPresent

C9_OneNextDraftPerParent ==
    SecondDraft =>
        /\ PARENTS[data.parent.json_id].next_draft_id =
              before.PARENTS[data.parent.json_id].next_draft_id
        /\ gpc \notin {"pid_update", "draft_insert", "version_state", "end"}
        /\ LastOutcome # "commit"

C9_Witness ==
    /\ SecondDraft
    /\ DraftRowsRan
    /\ LastOutcome = "rollback"

\* C10: a second run of _generate_pks leaves every key the first run left
\* set as it is.
C10_PksIdempotent ==
    pc = "pks_twice" =>
        /\ data.draft_bucket = loc.first.draft_bucket
        /\ \A i \in 1..Len(DraftCreatePks) :
              LET a == DraftCreatePks[i] IN
              (Truthy(loc.first[a]) /\ loc.first[a].id # None)
                  => data[a].id = loc.first[a].id

InEdit == data.name = "edit-draft"

\* committed draft creations with the natural key of the current action
CreatedSameKey ==
    {i \in Committed : /\ log[i].name = "create-draft"
                       /\ log[i].dk = data.draft.json_id
                       /\ log[i].pkey = data.parent.json_id}

UpdateRows(model) ==
    {i \in 1..Len(yielded) : yielded[i].type = "UPDATE" /\ yielded[i].model = model}

\* C11: a draft edit that follows a committed draft creation of the same
\* draft and parent keys resolves the ids of that creation: its parent update
\* row carries the parent id the creation bound, its draft update row the id
\* of the draft row the creation inserted, and the edit does not fail.
C11_EditResolvesCreatedIds ==
    InEdit =>
        \A i \in CreatedSameKey :
            /\ \A j \in UpdateRows("RDMParentMetadata") :
                   yielded[j].row.id = log[i].parent_id
            /\ \A j \in UpdateRows("RDMDraftMetadata") :
                   yielded[j].row.id = log[i].draft_id
            /\ log[i].parent_id # None /\ log[i].draft_id # None
            /\ LastOutcome # "rollback"
            /\ (pc = "gen" /\ gpc = "end") => Len(yielded) = 2

C11_Witness ==
    /\ InEdit
    /\ LastOutcome = "commit"
    /\ \E i \in CreatedSameKey : ~log[i].parent_known

Kind(o) == <<o.type, o.model>>

NotPidUpdate(o) == Kind(o) # <<"UPDATE", "PersistentIdentifier">>

\* the rows of the scenario, in its order
NewRecordRows ==
    << <<"INSERT", "PersistentIdentifier">>, <<"INSERT", "FilesBucket">>,
       <<"INSERT", "PersistentIdentifier">>, <<"INSERT", "RDMParentMetadata">>,
       <<"INSERT", "RDMDraftMetadata">>, <<"INSERT", "RDMVersionState">> >>

NewRecord ==
    /\ InCreate
    /\ ~ParentKnown
    /\ ~ForkedPresent
    /\ data.draft_pid.pid_type # "depid"
    /\ data.draft.json_id \notin DOMAIN before.PIDS

\* C12: the creation of a draft of a new record (parent not in PARENTS, no
\* record in RECORDS, a draft PID to register) yields, in this order, the
\* insert of the draft's PID, the bucket insert, the parent-creation rows,
\* the draft insert whose parent_id is the parent id generated by this
\* action, and the version-state insert whose next_draft_id is the id of the
\* draft row; the only other row is the update that links the PID.
C12_NewRecordRowOrder ==
    NewRecord =>
        LET rows == SelectSeq(yielded, NotPidUpdate) IN
        /\ Len(rows) <= Len(NewRecordRows)
        /\ \A i \in 1..Len(rows) : Kind(rows[i]) = NewRecordRows[i]
        /\ Len(yielded) - Len(rows) <= 1
        /\ (pc = "gen" /\ gpc = "end") => Len(rows) = Len(NewRecordRows)
        /\ Len(rows) >= 1 => rows[1].row.pid_value = data.draft.json_id
        /\ Len(rows) >= 4 =>
              /\ rows[4].row.id = data.parent.id
              /\ data.parent.id >= before.nextId
              /\ data.parent.id \notin DOMAIN before.db["RDMParentMetadata"]
        /\ Len(rows) >= 5 =>
              /\ rows[5].row.parent_id = data.parent.id
              /\ rows[5].row.id = data.draft.id
        /\ Len(rows) >= 6 =>
              /\ rows[6].row.next_draft_id = rows[5].row.id
              /\ rows[6].row.parent_id = data.parent.id

C12_Witness ==
    /\ NewRecord
    /\ pc = "gen" /\ gpc = "end"
    /\ Len(yielded) = 7

VersionOps == {i \in 1..Len(yielded) : yielded[i].model = "RDMVersionState"}

\* C13: the version-state row is the last row of a draft creation, an INSERT
\* exactly when the parent was not in PARENTS when the action began and an
\* UPDATE exactly when it was.
C13_VersionOpFollowsParent ==
    InCreate =>
        \A i \in VersionOps :
            /\ i = Len(yielded)
            /\ yielded[i].type = IF ParentKnown THEN "UPDATE" ELSE "INSERT"

PublishedDraft == InCreate /\ ParentKnown /\ ForkedPresent

\* rows of the current action on the draft's persistent identifier
DraftPidRows ==
    {i \in 1..Len(yielded) : /\ yielded[i].model = "PersistentIdentifier"
                             /\ yielded[i].row.pid_value = data.draft.json_id}

\* C14: the creation of a draft of a published record (parent in PARENTS,
\* record in RECORDS) emits no insert and no update of the draft's PID, adds
\* nothing to PIDS, inserts the draft row under the id of the forked record,
\* and fails when the id PARENTS holds for the parent differs from the
\* parent_id of the forked record.
C14_PublishedDraftAllocatesNothing ==
    PublishedDraft =>
        /\ DraftPidRows = {}
        /\ PIDS = before.PIDS
        /\ \A i \in DraftInserts :
               yielded[i].row.id = RECORDS[data.draft.json_id].id
        /\ before.PARENTS[data.parent.json_id].id
               # RECORDS[data.draft.json_id].parent_id
             => (LastOutcome # "commit" /\ DraftInserts = {})

EditRows == << <<"UPDATE", "RDMParentMetadata">>, <<"UPDATE", "RDMDraftMetadata">> >>

\* C16: a draft edit yields the parent update row and then the draft update
\* row and nothing else, generates no key, and leaves PIDS, PARENTS, RECORDS
\* and BUCKETS as they were.
C16_EditTwoUpdates ==
    InEdit =>
        /\ Len(yielded) <= Len(EditRows)
        /\ \A i \in 1..Len(yielded) : Kind(yielded[i]) = EditRows[i]
        /\ (pc = "gen" /\ gpc = "end") => Len(yielded) = Len(EditRows)
        /\ LastOutcome = "commit" => Len(yielded) = Len(EditRows)
        /\ nextId = before.nextId
        /\ PIDS = before.PIDS
        /\ PARENTS = before.PARENTS
        /\ RECORDS = InitRECORDS
        /\ BUCKETS = before.BUCKETS

C16_Witness ==
    /\ InEdit
    /\ LastOutcome = "commit"
    /\ Len(yielded) = 2
    /\ before.BUCKETS # InitBUCKETS

UnresolvedEdit == InEdit /\ data.parent.json_id \notin DOMAIN before.PARENTS

InDelete == data.name \in FileDeleteNames

DeleteCompleted == InDelete /\ (LastOutcome = "commit" \/ (pc = "gen" /\ gpc = "end"))

\* rows of the current action that take the head flag off the deleted version
HeadOffRows ==
    {i \in 1..Len(yielded) :
        /\ Kind(yielded[i]) = <<"UPDATE", "FilesObjectVersion">>
        /\ yielded[i].row.version_id = data.deleted_object_version.version_id
        /\ yielded[i].row.is_head = FALSE}

\* rows of the current action that insert a delete marker
MarkerRows ==
    {i \in 1..Len(yielded) :
        /\ Kind(yielded[i]) = <<"INSERT", "FilesObjectVersion">>
        /\ yielded[i].row.bucket_id = data.bucket.id
        /\ yielded[i].row.key = data.deleted_object_version.key
        /\ yielded[i].row.is_head = TRUE}

\* C19: a completed file delete (or media file delete) has yielded the
\* update that turns the head flag of the deleted object version off and,
\* after it, the insert of a delete marker for the same bucket and key,
\* whether the marker came with the payload or was generated.
C19_DeleteInsertsMarker ==
    DeleteCompleted =>
        \E i \in HeadOffRows : \E j \in MarkerRows : i < j

DeleteRows == {i \in 1..Len(yielded) : yielded[i].type = "DELETE"}

\* C20: a media file delete yields the rows of a file delete with
\* RDMDraftMediaFile in the place of RDMDraftFile, and the record it deletes
\* is the media file record of the deleted object version and key: a
\* completed action deletes that record when there is one, and no delete row
\* names any other id.
C20_MediaDeleteOwnTable ==
    (InDelete /\ data.name = "media-file-delete") =>
        LET own == MatchingIds(before.db, "RDMDraftMediaFile",
                               data.deleted_object_version)
        IN /\ \A i \in DeleteRows :
                  /\ yielded[i].model = "RDMDraftMediaFile"
                  /\ yielded[i].row.id \in own
           /\ (DeleteCompleted /\ own # {}) => DeleteRows # {}

SavepointScope == pc \in {"gen", "exec", "fail"}

\* the nested transaction changes only by being opened for the action just
\* taken from the feed, or by being ended once, for the action it was opened for
SavepointStep ==
    /\ nested' # nested =>
          \/ nested # "open" /\ nested' = "open" /\ pos' = pos + 1
          \/ nested = "open" /\ nested' \in {"committed", "rolled_back"} /\ pos' = pos
    /\ (pos' # pos /\ pc' = "gen") => (nested # "open" /\ nested' = "open")
    /\ (nested = "open" /\ nested' = "open") => pos' = pos

\* C22: every action runs in one savepoint, opened before prepare() starts
\* and ended by exactly one of commit and rollback before the next action is
\* taken; no savepoint is open when run() has returned or raised, and a
\* committed savepoint is never rolled back nor a rolled-back one committed.
C22_OneSavepointPerAction ==
    /\ [](/\ nested = "open" <=> SavepointScope
          /\ pc \in {"returned", "raised"} => nested # "open"
          /\ \A i, j \in 1..Len(log) : log[i].idx = log[j].idx => i = j
          /\ Cardinality(Committed \cup RolledBack)
                = IF nested = "open" THEN pos - 1 ELSE pos
          /\ nested = "committed" => LastOutcome = "commit"
          /\ nested = "rolled_back" => LastOutcome = "rollback")
    /\ [][SavepointStep]_vars

C22_Witness ==
    /\ pc \in {"returned", "raised"}
    /\ Committed # {}
    /\ RolledBack # {}

\* the steps of prepare() follow each other: key generation is entered only
\* when an action is taken, reference resolution only from key generation,
\* row generation only from reference resolution
PrepareStep ==
    /\ (gpc' = "pks" /\ gpc # "pks") =>
          (pc = "loop" /\ pos' = pos + 1 /\ nested' = "open")
    /\ (gpc' = "refs" /\ gpc # "refs") => (gpc = "pks" /\ pos' = pos)
    /\ (gpc' \notin {"none", "pks", "refs"} /\ gpc \in {"none", "pks", "refs"}) =>
          (gpc = "refs" /\ pos' = pos)
    /\ (pos' # pos /\ pc' = "gen") => gpc' = "pks"
    /\ (nextId' # nextId /\ gpc \in {"pks", "refs"}) => gpc = "pks"

\* C23: in prepare() key generation runs first, reference resolution second
\* and row generation third, each once per action and inside the action's
\* savepoint, and no operation is yielded before the first two have
\* completed.
C23_PrepareOrder ==
    /\ [](/\ gpc \in {"pks", "refs"} => (yielded = <<>> /\ nested = "open")
          /\ gpc = "pks" => (nextId = before.nextId /\ pc \in {"gen", "fail"})
          /\ gpc # "none" => nested = "open")
    /\ [][PrepareStep]_vars

C23_Witness ==
    /\ pc = "gen" /\ gpc = "end"
    /\ Len(yielded) >= 2
    /\ nextId > before.nextId

PidUpdateRows ==
    {i \in 1..Len(yielded) : Kind(yielded[i]) = <<"UPDATE", "PersistentIdentifier">>}

NoFork == InCreate /\ ~ForkedPresent

\* C24: a draft creation with no forked published record fails unless PIDS
\* holds the draft's key; otherwise it yields, before the draft insert, one
\* PID update row whose id is the id of that PIDS entry and whose object_uuid
\* is the id of the draft row the action inserts.
C24_PidLinkedBeforeDraftInsert ==
    NoFork =>
        /\ Cardinality(PidUpdateRows) <= 1
        /\ \A i \in PidUpdateRows :
               /\ data.draft.json_id \in DOMAIN PIDS
               /\ yielded[i].row.id = PIDS[data.draft.json_id].id
               /\ yielded[i].row.pid_value = data.draft.json_id
        /\ \A j \in DraftInserts :
               \E i \in PidUpdateRows :
                   i < j /\ yielded[i].row.object_uuid = yielded[j].row.id
        /\ (DraftRowsRan /\ data.draft.json_id \notin DOMAIN PIDS) =>
               /\ PidUpdateRows = {}
               /\ DraftInserts = {}
               /\ gpc \notin {"draft_insert", "version_state", "end"}
               /\ LastOutcome # "commit"

C24_Witness ==
    /\ NoFork
    /\ LastOutcome = "commit"
    /\ PidUpdateRows # {}
    /\ DraftInserts # {}

\* C28: after every committed draft creation BUCKETS maps the draft's bucket
\* to the id of the draft row the action inserted, which is the forked
\* record's id when there is one; when there is none, PARENTS maps the parent
\* key to a next_draft_id equal to that id.
C28_LedgersPointAtDraftRow ==
    \A i \in Committed :
        log[i].name = "create-draft" =>
            /\ log[i].draft_id # None
            /\ log[i].bucket \in DOMAIN BUCKETS
            /\ BUCKETS[log[i].bucket].draft_id = log[i].draft_id
            /\ log[i].dk \in DOMAIN RECORDS =>
                  log[i].draft_id = RECORDS[log[i].dk].id
            /\ log[i].dk \notin DOMAIN RECORDS =>
                  /\ log[i].pkey \in DOMAIN PARENTS
                  /\ PARENTS[log[i].pkey].next_draft_id = log[i].draft_id
                  /\ \A k \in DOMAIN RECORDS : RECORDS[k].id # log[i].draft_id

C28_Witness ==
    /\ pc = "returned"
    /\ \E i \in Committed : /\ log[i].name = "create-draft"
                             /\ ~log[i].parent_known
                             /\ i < Len(log)

InUpload == data.name = "file-upload"
InMediaUpload == data.name = "media-file-upload"

\* C21: every operation an action has yielded is executed and flushed
\* before the generator runs again: whenever row generation is about to
\* resume, the rows the session sees are the rows at the begin of the action
\* with all yielded operations applied, so the upload's later steps find the
\* replaced version without its head flag and the new version in the store,
\* and the media upload's later steps find the new media bucket on its draft.
C21_FlushedBeforeResume ==
    /\ pc = "gen" =>
          /\ db = ApplyAll(yielded, before.db)
          /\ stats_ops - before.ops = Len(yielded)
    /\ pc = "exec" =>
          db = ApplyAll(SubSeq(yielded, 1, Len(yielded) - 1), before.db)
    /\ ((InUpload \/ InMediaUpload)
          /\ pc = "gen" /\ gpc \in {"upload_record", "mupload_record", "end"}) =>
          /\ data.object_version.version_id \in DOMAIN db["FilesObjectVersion"]
          /\ Truthy(loc.replaced_ov) =>
                ~db["FilesObjectVersion"][loc.replaced_ov.version_id].is_head
    /\ (InMediaUpload /\ data.pid_value # NoPidValue
          /\ pc = "gen" /\ gpc \in {"mupload_head", "mupload_record", "end"}) =>
          DraftOfMediaBucket(db, data.bucket.id) # <<>>

C21_Witness ==
    /\ InUpload
    /\ pc = "gen" /\ gpc = "end"
    /\ Len(yielded) = 5
    /\ ~Truthy(data.replaced_object_version)

\* head versions of a bucket and key
Heads(rows, bucket_id, key) ==
    {v \in DOMAIN rows["FilesObjectVersion"] :
        /\ rows["FilesObjectVersion"][v].bucket_id = bucket_id
        /\ rows["FilesObjectVersion"][v].key = key
        /\ rows["FilesObjectVersion"][v].is_head = TRUE}

\* the run so far consists of file uploads without an explicit replaced
\* version and of file deletes
PlainFileActions ==
    \A i \in 1..Len(log) :
        \/ log[i].name = "file-upload" /\ ~log[i].supplied
        \/ log[i].name = "file-delete"

\* C26: between the actions of a run of file uploads without an explicit
\* replaced version and of file deletes, at most one object version of the
\* bucket and key is flagged as head.
C26_AtMostOneHead ==
    (BetweenActions /\ PlainFileActions) =>
        Cardinality(Heads(db, "b1", FileKey)) <= 1

\* the current action is an upload without an explicit replaced version that
\* follows a committed upload and the committed delete of the uploaded
\* version with a generated marker
UploadDeleteUpload ==
    /\ InUpload
    /\ ~Truthy(data.replaced_object_version)
    /\ pos >= 3
    /\ Len(log) >= pos - 1
    /\ log[pos - 2].name = "file-upload" /\ log[pos - 2].outcome = "commit"
    /\ log[pos - 1].name = "file-delete" /\ log[pos - 1].outcome = "commit"
    /\ log[pos - 1].ov = log[pos - 2].ov
    /\ ~log[pos - 1].supplied
    /\ data.object_version.version_id # log[pos - 2].ov

\* C27: an upload that follows a committed upload and a committed delete of
\* the same key (marker generated) completes and leaves one file record for
\* the key, pointing at the new head version.
C27_UploadAfterDelete ==
    UploadDeleteUpload =>
        /\ pc # "fail"
        /\ LastOutcome # "rollback"
        /\ LastOutcome = "commit" =>
              LET recs == {k \in DOMAIN db["RDMDraftFile"] :
                              db["RDMDraftFile"][k].key = FileKey}
              IN /\ Cardinality(recs) = 1
                 /\ \A k \in recs :
                        /\ db["RDMDraftFile"][k].object_version_id
                              = data.object_version.version_id
                        /\ db["RDMDraftFile"][k].object_version_id
                              \in Heads(db, "b1", FileKey)

====
